---------------------------- MODULE Spec2Model ----------------------------
(***************************************************************************)
(* Model of Projekt1/address_book.py: the AddressBook record store (its    *)
(* identifier allocation, deletion, exact search and paged iteration) and  *)
(* the "did you mean" suggestion built on weighted_levenshtein_distance.   *)
(*                                                                         *)
(* A Python str is a sequence of one-character strings.  The UserDict      *)
(* `data` is an insertion-ordered dict: a sequence of entries, each a key  *)
(* and the Record stored under it (a deleted key that is stored again goes *)
(* to the end).                                                            *)
(***************************************************************************)
EXTENDS Integers, Sequences, FiniteSets

VARIABLES
    data,       \* AddressBook.data: the ordered dict key -> Record
    next_id,    \* AddressBook.next_id
    free_ids,   \* AddressBook.free_ids
    current,    \* AddressBook.current, the paging cursor (Unset before __iter__)
    call,       \* the last call made on the book and its arguments
    ret,        \* what that call returned or printed
    pc,         \* per caller of iter(book): "idle", "active" or "done"
    got,        \* per caller: the groups its current traversal received
    prev,       \* per caller: the groups of its previous, undisturbed traversal
    solo,       \* per caller: no other caller stepped since its __iter__
    clean,      \* per caller: the store was not modified since its __iter__
    runs        \* per caller: the traversals it has started

vars ==
    <<data, next_id, free_ids, current, call, ret,
      pc, got, prev, solo, clean, runs>>

----------------------------------------------------------------------------
(* Bounds of the model *)

MaxRecords == 3
MaxSearchRecords == 3
MaxStrLen == 3
MaxPageRecords == 12
MaxRuns == 2

----------------------------------------------------------------------------
(* Values *)

None == "None"
Unset == "Unset"

Min2(a, b) == IF a <= b THEN a ELSE b
Max2(a, b) == IF a >= b THEN a ELSE b
SetMin(S) == CHOOSE x \in S : \A y \in S : x <= y

\* str.lower() on one character, for the capitals the model's names use
LowerChar(c) ==
    CASE c = "A" -> "a"
      [] c = "E" -> "e"
      [] c = "J" -> "j"
      [] c = "N" -> "n"
      [] OTHER -> c

Lower(s) == [i \in 1..Len(s) |-> LowerChar(s[i])]

\* Python's `sub in s` on strings
Contains(sub, s) ==
    \E i \in 0..(Len(s) - Len(sub)) : SubSeq(s, i + 1, i + Len(sub)) = sub

\* Record(name) followed by add_phone / add_email calls; id is None until stored
Record(name, phones, emails) ==
    [id |-> None, name |-> name, phones |-> phones, emails |-> emails]

Phone1 == <<"1","2","3","4","5","6","7","8","9">>
Email1 == <<"e","1","@","b",".","c">>

John == Record(<<"j","o","h","n">>, <<>>, <<>>)
Anna == Record(<<"a","n","n","a">>, <<>>, <<>>)
Jonathan == Record(<<"j","o","n","a","t","h","a","n">>, <<>>, <<>>)
Ewa == Record(<<"E","w","a">>, <<Phone1>>, <<Email1>>)

\* the records the user enters: in the store's specification, and in the
\* search's
StoreRecords == {John, Jonathan, Ewa}
RecordPool == StoreRecords \cup {Anna}

\* what the user types as a search term
Terms ==
    { <<>>, <<"j","o","n">>, <<"A","N","N","A">>, <<"1">>, <<"e">> }

\* what the user types when asked for the name of the record to delete
DeleteNames == { <<>>, <<"j","o","n">>, <<"1">> }

Digits == <<"0","1","2","3","4","5","6","7","8","9">>
IsDigit(c) == \E i \in 1..10 : Digits[i] = c
DigitValue(c) == (CHOOSE i \in 1..10 : Digits[i] = c) - 1

\* what the user types when asked for an ID: the decimal numerals of
\* 0..MaxRecords+1, a numeral as the listing prints it ("ID: 2") and a word
IdInputs ==
    { <<Digits[n + 1]>> : n \in 0..(MaxRecords + 1) }
        \cup { <<"I","D",":"," ","2">>, <<"x">> }

----------------------------------------------------------------------------
(* The ordered dict *)

Keys(d) == {d[i].key : i \in 1..Len(d)}
Values(d) == [i \in 1..Len(d) |-> d[i].rec]
IndexOf(d, k) == CHOOSE i \in 1..Len(d) : d[i].key = k

\* d[k] = r
DictSet(d, k, r) ==
    IF k \in Keys(d)
    THEN [d EXCEPT ![IndexOf(d, k)] = [key |-> k, rec |-> r]]
    ELSE Append(d, [key |-> k, rec |-> r])

\* del d[k]
DictDel(d, k) ==
    LET i == IndexOf(d, k)
    IN  SubSeq(d, 1, i - 1) \o SubSeq(d, i + 1, Len(d))

----------------------------------------------------------------------------
(* Reading an ID typed by the user *)

RECURSIVE LStrip(_)
LStrip(s) == IF s # <<>> /\ Head(s) = " " THEN LStrip(Tail(s)) ELSE s

RECURSIVE RStrip(_)
RStrip(s) ==
    IF s # <<>> /\ s[Len(s)] = " " THEN RStrip(SubSeq(s, 1, Len(s) - 1)) ELSE s

\* str.strip(), for the blank the inputs use
Strip(s) == RStrip(LStrip(s))

IdPrefix == <<"I","D",":"," ">>

\* s.replace("ID: ", "")
RECURSIVE RemoveIdPrefix(_)
RemoveIdPrefix(s) ==
    IF s = <<>> THEN s
    ELSE IF Len(s) >= Len(IdPrefix) /\ SubSeq(s, 1, Len(IdPrefix)) = IdPrefix
         THEN RemoveIdPrefix(SubSeq(s, Len(IdPrefix) + 1, Len(s)))
         ELSE <<Head(s)>> \o RemoveIdPrefix(Tail(s))

RECURSIVE DecimalValue(_)
DecimalValue(s) ==
    IF s = <<>> THEN 0
    ELSE 10 * DecimalValue(SubSeq(s, 1, Len(s) - 1)) + DigitValue(s[Len(s)])

\* int(s): surrounding blanks are ignored; anything but a non-empty run of
\* digits raises ValueError (ok = FALSE)
ParseInt(s) ==
    LET t == Strip(s)
    IN  IF t # <<>> /\ \A i \in 1..Len(t) : IsDigit(t[i])
        THEN [ok |-> TRUE, val |-> DecimalValue(t)]
        ELSE [ok |-> FALSE, val |-> 0]

----------------------------------------------------------------------------
(* Identifier allocation: AddressBook._get_next_record_id *)

\* a loop that tests free_ids alone
RECURSIVE AdvanceNextId_FreeOnly(_, _, _)
AdvanceNextId_FreeOnly(n, d, f) ==
    IF n \in f THEN AdvanceNextId_FreeOnly(n + 1, d, f) ELSE n

\* a loop that steps before it tests
RECURSIVE AdvanceNextId_StepFirst(_, _, _)
AdvanceNextId_StepFirst(n, d, f) ==
    IF (n + 1) \in Keys(d) \/ (n + 1) \in f
    THEN AdvanceNextId_StepFirst(n + 1, d, f) ELSE n + 1

\* the while loop: next_id moves past every key of data and every free id
RECURSIVE AdvanceNextId(_, _, _)
AdvanceNextId(n, d, f) ==
    IF n \in Keys(d) \/ n \in f THEN AdvanceNextId(n + 1, d, f) ELSE n

\* an allocation that reads free_ids and leaves the id in it
get_next_record_id_NoPop(n0, d, f) ==
    LET n == AdvanceNextId(n0, d, f)
    IN  IF f # {}
        THEN { [id |-> x, next_id |-> n, free_ids |-> f] : x \in f }
        ELSE { [id |-> n, next_id |-> n, free_ids |-> f] }

\* The outcomes of one call: the id returned and the allocator state left.
\* set.pop() removes and returns an arbitrary element of free_ids.
get_next_record_id(n0, d, f) ==
    LET n == AdvanceNextId(n0, d, f)
    IN  IF f # {}
        THEN { [id |-> x, next_id |-> n, free_ids |-> f \ {x}] : x \in f }
        ELSE { [id |-> n, next_id |-> n, free_ids |-> f] }

----------------------------------------------------------------------------
(* Deletion: the body shared by delete_record_by_id and delete_record *)

\* a deletion that releases the id whether or not it was found
RemoveById_AlwaysRelease(d, f, id) ==
    IF id \in Keys(d)
    THEN [data |-> DictDel(d, id), free_ids |-> f \cup {id}, msg |-> "deleted"]
    ELSE [data |-> d, free_ids |-> f \cup {id}, msg |-> "not found"]

\* a deletion that forgets free_ids.add
RemoveById_NoRelease(d, f, id) ==
    IF id \in Keys(d)
    THEN [data |-> DictDel(d, id), free_ids |-> f, msg |-> "deleted"]
    ELSE [data |-> d, free_ids |-> f, msg |-> "not found"]

RemoveById(d, f, id) ==
    IF id \in Keys(d)
    THEN [data |-> DictDel(d, id), free_ids |-> f \cup {id}, msg |-> "deleted"]
    ELSE [data |-> d, free_ids |-> f, msg |-> "not found"]

\* find_records_by_name: the (key, record) pairs whose name contains `name`,
\* compared in lower case
find_records_by_name(d, name) ==
    LET hit(i) == Contains(Lower(name), Lower(d[i].rec.name))
        F[i \in 0..Len(d)] ==
            IF i = 0 THEN <<>>
            ELSE IF hit(i) THEN Append(F[i - 1], <<d[i].key, d[i].rec>>)
                 ELSE F[i - 1]
    IN  F[Len(d)]

----------------------------------------------------------------------------
(* Exact search: AddressBook.find_record *)

\* What one pass of the loop body appends for record r: the record once for
\* a name match (then `continue`), and otherwise once for the first phone
\* that matches and once for the first email that matches.
RecordHits(r, term) ==
    IF Contains(Lower(term), Lower(r.name))
    THEN <<r>>
    ELSE (IF \E i \in 1..Len(r.phones) : Contains(term, r.phones[i])
          THEN <<r>> ELSE <<>>)
         \o
         (IF \E i \in 1..Len(r.emails) : Contains(term, r.emails[i])
          THEN <<r>> ELSE <<>>)

find_record(d, term) ==
    LET F[i \in 0..Len(d)] ==
            IF i = 0 THEN <<>> ELSE F[i - 1] \o RecordHits(d[i].rec, term)
    IN  F[Len(d)]

----------------------------------------------------------------------------
(* Edit distance: weighted_levenshtein_distance *)

Min3(a, b, c) == Min2(a, Min2(b, c))

\* matrix[i][0..len_s2] from matrix[i-1]: `row` holds the cells of row i
\* filled so far, row[j + 1] being matrix[i][j]
RECURSIVE FillRow(_, _, _, _, _)
FillRow(above, row, i, s1, s2) ==
    IF Len(row) = Len(s2) + 1 THEN row
    ELSE LET j == Len(row)
             cost == IF s1[i] = s2[j] THEN 0 ELSE 1
             cell == Min3(above[j + 1] + 1, row[j] + 1, above[j] + cost)
         IN  FillRow(above, Append(row, cell), i, s1, s2)

\* rows 1..len_s1 in turn; the result is the last row
RECURSIVE FillMatrix(_, _, _, _)
FillMatrix(above, i, s1, s2) ==
    IF i > Len(s1) THEN above
    ELSE FillMatrix(FillRow(above, <<i>>, i, s1, s2), i + 1, s1, s2)

\* matrix[len_s1][len_s2]
MatrixDistance(s1, s2) ==
    FillMatrix([j \in 1..(Len(s2) + 1) |-> j - 1], 1, s1, s2)[Len(s2) + 1]

\* the value returned, as the fraction num / den (an int n is n / 1)
weighted_levenshtein_distance(s1, s2) ==
    IF Len(s1) = 0 THEN [num |-> Len(s2), den |-> 1]
    ELSE IF Len(s2) = 0 THEN [num |-> Len(s1), den |-> 1]
    ELSE [num |-> MatrixDistance(s1, s2), den |-> Max2(Len(s1), Len(s2))]

\* x < y on fractions with positive denominators
FracLess(x, y) == x.num * y.den < y.num * x.den

----------------------------------------------------------------------------
(* Suggestion: suggest_correction_search *)

RECURSIVE Concat(_)
Concat(ss) == IF ss = <<>> THEN <<>> ELSE Head(ss) \o Concat(Tail(ss))

\* all names, then all phones, then all emails, records in dict order
all_search_terms(d) ==
    [i \in 1..Len(d) |-> d[i].rec.name]
        \o Concat([i \in 1..Len(d) |-> d[i].rec.phones])
        \o Concat([i \in 1..Len(d) |-> d[i].rec.emails])

\* min(xs, key=...): the index of the first element whose key is smallest
RECURSIVE MinIndex(_, _, _, _)
MinIndex(xs, term, best, i) ==
    IF i > Len(xs) THEN best
    ELSE IF FracLess(weighted_levenshtein_distance(term, xs[i]),
                     weighted_levenshtein_distance(term, xs[best]))
         THEN MinIndex(xs, term, i, i + 1)
         ELSE MinIndex(xs, term, best, i + 1)

\* min() of an empty list raises ValueError
suggest_correction_search(term, d) ==
    LET xs == all_search_terms(d)
    IN  IF xs = <<>> THEN [raised |-> "ValueError", value |-> <<>>]
        ELSE [raised |-> "", value |-> xs[MinIndex(xs, term, 1, 2)]]

----------------------------------------------------------------------------
(* The store's operations *)

Callers == {1, 2}

\* no earlier traversal to compare with
NoGroups == [valid |-> FALSE, groups |-> <<>>]

storeVars == <<data, next_id, free_ids>>
pageVars == <<current, pc, got, prev, solo, clean, runs>>

\* a change of the store is seen by every traversal in progress
Modified == clean' = [t \in Callers |-> FALSE]

\* add_record(record)
add_record(r) ==
    \E o \in get_next_record_id(next_id, data, free_ids) :
        /\ data' = DictSet(data, o.id, [r EXCEPT !.id = o.id])
        /\ next_id' = o.next_id
        /\ free_ids' = o.free_ids
        /\ call' = [op |-> "add_record", record |-> r]
        /\ ret' = [printed |-> "added", id |-> o.id]
        /\ Modified
        /\ UNCHANGED <<current, pc, got, prev, solo, runs>>

\* the try block of both delete handlers, given int(...) of the typed ID
DeleteParsed(p) ==
    IF p.ok
    THEN LET o == RemoveById(data, free_ids, p.val)
         IN  /\ data' = o.data
             /\ free_ids' = o.free_ids
             /\ ret' = [printed |-> o.msg]
             /\ clean' = IF o.msg = "deleted"
                          THEN [t \in Callers |-> FALSE] ELSE clean
    ELSE /\ ret' = [printed |-> "invalid id"]
         /\ UNCHANGED <<data, free_ids, clean>>

\* delete_record_by_id(), the user typing `input`
delete_record_by_id(input) ==
    LET p == ParseInt(Strip(RemoveIdPrefix(Strip(input))))
    IN  /\ call' = [op |-> "delete_record_by_id", name |-> <<>>,
                     asked |-> TRUE, input |-> input, record_id |-> p]
        /\ DeleteParsed(p)
        /\ UNCHANGED <<next_id, current, pc, got, prev, solo, runs>>

\* delete_record(), the user typing `name` and then, when some record
\* matches it, `input`
delete_record(name, input) ==
    LET matching == find_records_by_name(data, name)
        p == ParseInt(input)
    IN  /\ IF matching = <<>>
           THEN /\ call' = [op |-> "delete_record", name |-> name,
                             asked |-> FALSE, input |-> <<>>,
                             record_id |-> [ok |-> FALSE, val |-> 0]]
                /\ ret' = [printed |-> "no matching records"]
                /\ UNCHANGED <<data, free_ids, clean>>
           ELSE /\ call' = [op |-> "delete_record", name |-> name,
                             asked |-> TRUE, input |-> input, record_id |-> p]
                /\ DeleteParsed(p)
        /\ UNCHANGED <<next_id, current, pc, got, prev, solo, runs>>

----------------------------------------------------------------------------
(* Specification of the store: records are added and deleted *)

Init ==
    /\ data = <<>>
    /\ next_id = 1
    /\ free_ids = {}
    /\ current = Unset
    /\ call = [op |-> "init"]
    /\ ret = [printed |-> ""]
    /\ pc = [t \in Callers |-> "idle"]
    /\ got = [t \in Callers |-> <<>>]
    /\ prev = [t \in Callers |-> NoGroups]
    /\ solo = [t \in Callers |-> FALSE]
    /\ clean = [t \in Callers |-> FALSE]
    /\ runs = [t \in Callers |-> 0]

Add == \E r \in StoreRecords : Len(data) < MaxRecords /\ add_record(r)
DeleteById == \E input \in IdInputs : delete_record_by_id(input)
DeleteByName == \E name \in DeleteNames, input \in IdInputs : delete_record(name, input)

Next == Add \/ DeleteById \/ DeleteByName

Spec == Init /\ [][Next]_vars

----------------------------------------------------------------------------
(* Specification of the search: records are added and looked up *)

Find(term) ==
    /\ call' = [op |-> "find_record", term |-> term]
    /\ ret' = [records |-> find_record(data, term)]
    /\ UNCHANGED <<storeVars, pageVars>>

Suggest(term) ==
    /\ call' = [op |-> "suggest_correction_search", term |-> term]
    /\ ret' = suggest_correction_search(term, data)
    /\ UNCHANGED <<storeVars, pageVars>>

AddSearch == \E r \in RecordPool : Len(data) < MaxSearchRecords /\ add_record(r)
FindAny == \E term \in Terms : Find(term)
SuggestAny == \E term \in Terms : Suggest(term)

NextSearch == AddSearch \/ FindAny \/ SuggestAny

SpecSearch == Init /\ [][NextSearch]_vars

----------------------------------------------------------------------------
(* Specification of the distance: one call on two strings *)

Alphabet == {"a", "b"}

Strings == UNION { [1..n -> Alphabet] : n \in 0..MaxStrLen }

InitDist ==
    /\ data = <<>>
    /\ next_id = 1
    /\ free_ids = {}
    /\ current = Unset
    /\ call \in { [op |-> "input", s1 |-> a, s2 |-> b] : a, b \in Strings }
    /\ ret = [printed |-> ""]
    /\ pc = [t \in Callers |-> "idle"]
    /\ got = [t \in Callers |-> <<>>]
    /\ prev = [t \in Callers |-> NoGroups]
    /\ solo = [t \in Callers |-> FALSE]
    /\ clean = [t \in Callers |-> FALSE]
    /\ runs = [t \in Callers |-> 0]

Distance ==
    /\ call.op = "input"
    /\ call' = [call EXCEPT !.op = "weighted_levenshtein_distance"]
    /\ ret' = [value |-> weighted_levenshtein_distance(call.s1, call.s2)]
    /\ UNCHANGED <<storeVars, pageVars>>

NextDist == Distance

SpecDist == InitDist /\ [][NextDist]_vars

----------------------------------------------------------------------------
(* Paged iteration: AddressBook.__iter__ and AddressBook.__next__ *)

PageSize == 5

\* a slice that starts one record late
Page_OffByOne(vals, cur) ==
    SubSeq(vals, cur + 2, Min2(cur + PageSize, Len(vals)))

\* list(self.data.values())[self.current:self.current+5]
Page(vals, cur) ==
    SubSeq(vals, cur + 1, Min2(cur + PageSize, Len(vals)))

\* caller t runs iter(book): the cursor of the book is set to 0
iter(t) ==
    /\ pc[t] \in {"idle", "done"}
    /\ runs[t] < MaxRuns
    /\ current' = 0
    /\ pc' = [pc EXCEPT ![t] = "active"]
    /\ got' = [got EXCEPT ![t] = <<>>]
    /\ prev' = [prev EXCEPT ![t] =
                    IF pc[t] = "done" /\ solo[t] /\ clean[t]
                    THEN [valid |-> TRUE, groups |-> got[t]]
                    ELSE NoGroups]
    /\ solo' = [u \in Callers |-> u = t]
    /\ clean' = [clean EXCEPT ![t] = TRUE]
    /\ runs' = [runs EXCEPT ![t] = @ + 1]
    /\ call' = [op |-> "__iter__", caller |-> t]
    /\ ret' = [printed |-> ""]
    /\ UNCHANGED storeVars

\* caller t runs next(book): the next group, or StopIteration
next(t) ==
    /\ pc[t] = "active"
    /\ call' = [op |-> "__next__", caller |-> t]
    /\ solo' = [u \in Callers |-> u = t /\ solo[t]]
    /\ IF current < Len(data)
       THEN LET records == Page(Values(data), current)
            IN  /\ current' = current + PageSize
                /\ got' = [got EXCEPT ![t] = Append(@, records)]
                /\ ret' = [raised |-> "", records |-> records]
                /\ UNCHANGED pc
       ELSE /\ pc' = [pc EXCEPT ![t] = "done"]
            /\ ret' = [raised |-> "StopIteration", records |-> <<>>]
            /\ UNCHANGED <<current, got>>
    /\ UNCHANGED <<storeVars, prev, clean, runs>>

\* the user adds a record while no listing is in progress: the claims about
\* paging are about traversals of a store that is not modified meanwhile
AddPage ==
    /\ \A t \in Callers : pc[t] # "active"
    /\ Len(data) < MaxPageRecords
    /\ add_record(John)
Iter == \E t \in Callers : iter(t)
NextGroup == \E t \in Callers : next(t)

NextPage == AddPage \/ Iter \/ NextGroup

SpecPage == Init /\ [][NextPage]_vars

----------------------------------------------------------------------------
(* Claims about the store *)

IsAdd(c) == c.op = "add_record"

\* a delete handler that read an ID and parsed it as an integer
IsDeleteOf(c) ==
    /\ c.op \in {"delete_record_by_id", "delete_record"}
    /\ c.asked
    /\ c.record_id.ok

SmallestUnused(d) ==
    CHOOSE n \in 1..(Len(d) + 1) :
        n \notin Keys(d) /\ \A m \in 1..(n - 1) : m \in Keys(d)

\* C1: after every sequence of add_record and delete calls from the empty
\* store, every id held by a stored record is a positive integer, no two
\* stored records hold the same id, and free_ids shares no element with the
\* key set of data.
C1_IdsUniquePositiveDisjoint ==
    /\ \A i \in 1..Len(data) : data[i].rec.id \in Nat \ {0}
    /\ \A i, j \in 1..Len(data) : i # j => data[i].rec.id # data[j].rec.id
    /\ free_ids \cap Keys(data) = {}

\* C1 witness: a released id has been handed out again while another id is
\* still released and a record with a larger id is stored before it.
C1_Witness ==
    /\ IsAdd(call)
    /\ Len(data) >= 2
    /\ free_ids # {}
    /\ data[Len(data)].rec.id < data[1].rec.id

\* C2: add_record gives the new record the smallest id of free_ids when
\* free_ids is not empty, and otherwise the smallest positive integer that
\* is not a key of data.
C2_AddTakesSmallest ==
    [][IsAdd(call') =>
          ret'.id = IF free_ids # {} THEN SetMin(free_ids)
                    ELSE SmallestUnused(data)]_vars

\* C3: a delete of an id that is not a key of data prints "not found" and
\* leaves data, free_ids and next_id as they were.
C3_DeleteMissingChangesNothing ==
    [][(IsDeleteOf(call') /\ call'.record_id.val \notin Keys(data)) =>
          /\ ret'.printed = "not found"
          /\ data' = data
          /\ free_ids' = free_ids
          /\ next_id' = next_id]_vars

\* C3 witness: delete_record, after a name that matched, was given an id
\* that is no key, in a store that holds records and released ids.
C3_Witness ==
    /\ call.op = "delete_record"
    /\ IsDeleteOf(call)
    /\ call.record_id.val \notin Keys(data) \cup free_ids
    /\ ret.printed = "not found"
    /\ data # <<>>
    /\ free_ids # {}

\* C4: a delete of an id that is a key of data removes that entry and no
\* other, adds that id and no other to free_ids, and leaves next_id alone.
C4_DeleteRemovesExactlyOne ==
    [][(IsDeleteOf(call') /\ call'.record_id.val \in Keys(data)) =>
          LET id == call'.record_id.val
              others(e) == e.key # id
          IN  /\ data' = SelectSeq(data, others)
              /\ Len(data') = Len(data) - 1
              /\ free_ids' = free_ids \cup {id}
              /\ free_ids' \ free_ids = {id}
              /\ next_id' = next_id]_vars

\* C4 witness: delete_record_by_id removed a record from a store that keeps
\* another record and already had a released id.
C4_Witness ==
    /\ call.op = "delete_record_by_id"
    /\ ret.printed = "deleted"
    /\ data # <<>>
    /\ Cardinality(free_ids) >= 2

\* C9 as claimed: when add_record asks for an id (on entry to
\* _get_next_record_id) next_id is not a key of data.
C9_NextIdFreshOnEntry ==
    [][IsAdd(call') => next_id \notin Keys(data)]_vars

\* C9 as amended: when the loop of _get_next_record_id has run, before the
\* id is returned and stored, next_id is not a key of data.
C9_NextIdFreshAfterLoop ==
    [][IsAdd(call') => next_id' \notin Keys(data)]_vars

\* C9 witness: an add_record whose loop moved next_id past the stored keys
\* and which returned a released id.
C9_Witness ==
    /\ IsAdd(call)
    /\ next_id = 3
    /\ ret.id = 1

\* C11: after every sequence of add_record and delete calls from the empty
\* store no id is lost or skipped: every positive integer below next_id is a
\* key of data or an element of free_ids, and no key and no free id is
\* greater than next_id, so the keys and free ids together are 1..next_id-1
\* or 1..next_id.
C11_NoIdLostOrSkipped ==
    LET ids == Keys(data) \cup free_ids
    IN  /\ \A m \in 1..(next_id - 1) : m \in ids
        /\ \A k \in ids : k <= next_id
        /\ ids = 1..(next_id - 1) \/ ids = 1..next_id

\* C11 witness: after three adds a delete has released an id below next_id,
\* which is itself still a key.
C11_Witness ==
    /\ IsDeleteOf(call)
    /\ ret.printed = "deleted"
    /\ free_ids # {}
    /\ next_id \in Keys(data)
    /\ next_id >= 3

----------------------------------------------------------------------------
(* Claims about the search *)

\* how often record r occurs in the sequence rs
Occurrences(rs, r) == Cardinality({i \in 1..Len(rs) : rs[i] = r})

\* the record matches the term: in its name (in lower case), in one of its
\* phones or in one of its emails
Matches(r, term) ==
    \/ Contains(Lower(term), Lower(r.name))
    \/ \E i \in 1..Len(r.phones) : Contains(term, r.phones[i])
    \/ \E i \in 1..Len(r.emails) : Contains(term, r.emails[i])

\* C5: find_record returns every matching record exactly once, also one
\* that matches in several fields, and no record twice.
C5_FindReturnsEachOnce ==
    call.op = "find_record" =>
        \A i \in 1..Len(data) :
            Occurrences(ret.records, data[i].rec)
                = IF Matches(data[i].rec, call.term) THEN 1 ELSE 0

\* C6: for all strings, one or both empty included, the value of
\* weighted_levenshtein_distance is at least 0 and at most 1.
C6_DistanceInUnitInterval ==
    call.op = "weighted_levenshtein_distance" =>
        /\ ret.value.den > 0
        /\ 0 <= ret.value.num
        /\ ret.value.num <= ret.value.den

\* Distance(a, b) / max(len(a), len(b)), 0 when both are empty
NormalizedDistance(a, b) ==
    IF Len(a) = 0 /\ Len(b) = 0 THEN [num |-> 0, den |-> 1]
    ELSE [num |-> MatrixDistance(a, b), den |-> Max2(Len(a), Len(b))]

\* C7: for every query, the empty one included, and a non-empty candidate
\* list (names, then phones, then emails), suggest_correction_search returns
\* the first candidate whose Distance(query, c) / max(len(query), len(c)) is
\* smallest.
C7_SuggestReturnsFirstNearest ==
    (call.op = "suggest_correction_search" /\ data # <<>>) =>
        LET xs == all_search_terms(data)
            q == call.term
        IN  \E i \in 1..Len(xs) :
                /\ ret.value = xs[i]
                /\ \A j \in 1..Len(xs) :
                       ~FracLess(NormalizedDistance(q, xs[j]),
                                 NormalizedDistance(q, xs[i]))
                /\ \A j \in 1..(i - 1) :
                       FracLess(NormalizedDistance(q, xs[i]),
                                NormalizedDistance(q, xs[j]))

----------------------------------------------------------------------------
(* Claims about the paged iteration *)

GroupSizes(g) == [i \in 1..Len(g) |-> Len(g[i])]

\* the groups are the store's records, PageSize at a time, in dict order
FullSequence(g) ==
    LET n == Len(data)
        k == Len(g)
    IN  /\ k = (n + PageSize - 1) \div PageSize
        /\ \A i \in 1..(k - 1) : Len(g[i]) = PageSize
        /\ k > 0 => Len(g[k]) \in 1..PageSize
        /\ Concat(g) = Values(data)

\* C8: a traversal of a store of n records that nothing else touched ends
\* after ceil(n/5) groups, each of 5 records but the last of 1 to 5, which
\* together are the store's records in dict order, each once; a traversal
\* started afterwards yields the same groups.
C8_TraversalYieldsAllPages ==
    \A t \in Callers :
        /\ (pc[t] = "done" /\ solo[t] /\ clean[t]) =>
               /\ FullSequence(got[t])
               /\ prev[t].valid => prev[t].groups = got[t]
        /\ (pc[t] = "active" /\ solo[t] /\ clean[t]) =>
               /\ Len(got[t]) <= (Len(data) + PageSize - 1) \div PageSize
               /\ current = PageSize * Len(got[t])

\* C8 witness: a second traversal of 12 records in a row has ended with
\* groups of 5, 5 and 2.
C8_Witness ==
    \E t \in Callers :
        /\ pc[t] = "done" /\ solo[t] /\ clean[t]
        /\ prev[t].valid
        /\ Len(data) = 12
        /\ GroupSizes(got[t]) = <<5, 5, 2>>

\* C10: a traversal of an unmodified store yields the full sequence of
\* groups whatever the steps of another traversal in between.
C10_TraversalsIndependent ==
    \A t \in Callers :
        (pc[t] = "done" /\ clean[t]) => FullSequence(got[t])

=============================================================================
